---- MODULE Spec2Model ----
(***************************************************************************)
(* Model of src/app.py: the Flask-SocketIO bridge that drives one gamdl    *)
(* child per client session through a pexpect pty.                         *)
(*                                                                         *)
(* socketio runs with async_mode='threading' (app.py:10): every event      *)
(* handler and every read_gamdl_output pump is a thread of its own, so the *)
(* handlers are modelled as sequences of steps that interleave with the    *)
(* pumps and with the child processes themselves.                          *)
(*                                                                         *)
(* A step ends where the code blocks or yields before it touches shared    *)
(* state again: pexpect.spawn (fork and exec), read_nonblocking,           *)
(* socketio.sleep, close(), and the print between the membership test and  *)
(* the del in the pump's finally block. The condition of app.py:100 and    *)
(* the lookup, liveness test and send of handle_send_input are one step    *)
(* each, as is the test and del of the except blocks (app.py:151-152),     *)
(* whose KeyError could only follow the error message and leave the same   *)
(* registry.                                                               *)
(***************************************************************************)
EXTENDS Naturals, Sequences, FiniteSets

\* ---------------------------------------------------------------- bounds
NumSessions == 1
MaxProcs    == 2
MaxHandlers == 2
MaxOut      == 1
MaxIn       == 1
\* bytes one child writes in the specification of a single download
MaxOutLen   == 3
\* read_nonblocking(size=1024): the size of one read, scaled down
ReadSize    == 2

SIDs     == 1..NumSessions
Procs    == 1..MaxProcs
Handlers == 1..MaxHandlers
None     == 0

\* bytes a child writes: an ASCII byte, the lead byte and the continuation
\* byte of a two-byte UTF-8 sequence
Bytes == {"A", "L", "T"}
\* what the client sends as data_dict['url'] / data_dict['input']
Urls   == {"None", "", "url"}
Inputs == {"None", "", "x"}

VARIABLES
    conn,             \* sid -> "new" | "open" | "closed" (the client's connection)
    child_processes,  \* sid -> process or None (app.py:18)
    owner,            \* process -> the sid it was spawned for, None before spawn
    pstat,            \* process -> "none" | "run" | "hup" (alive, pty slave closed) | "dead"
    fd,               \* process -> "none" | "open" | "closed" (the pty descriptor)
    ptyOut,           \* process -> bytes written by the child and not read yet
    produced,         \* process -> every byte the child has written (history)
    decoder,          \* process -> bytes pending in pexpect's incremental decoder
    delivered,        \* process -> concatenation of the gamdl_output payloads (history)
    ptyIn,            \* process -> payloads written to the pty by send()
    sig,              \* process -> termination requests of handle_disconnect
    popped,           \* process -> "no" | "alive" | "dead": how handle_disconnect
                      \*            found the process it popped (history)
    ppc,              \* process -> position of its read_gamdl_output thread
    pexit,            \* process -> why the pump left its loop
    dcount,           \* process -> number of download_complete emitted by its pump
    hpc,              \* handler thread -> position
    hsid,             \* handler thread -> request.sid
    hchild,           \* handler thread -> local child_process of handle_disconnect
    nin,              \* number of payloads sent so far (bounded by MaxIn)
    last              \* the message emitted by the last step, NoMsg if none

procvars == <<owner, pstat, fd, ptyOut, produced, decoder, delivered, ptyIn, sig, popped>>
pumpvars == <<ppc, pexit, dcount>>
hvars    == <<hpc, hsid, hchild>>
vars == <<conn, child_processes, owner, pstat, fd, ptyOut, produced, decoder,
          delivered, ptyIn, sig, popped, ppc, pexit, dcount, hpc, hsid, hchild, nin, last>>

NoMsg == [to |-> None, type |-> "none", why |-> "none"]

\* no message either: the payload of a send_input was None and the handler
\* only logged it (app.py:165-167)
Ignored == [to |-> None, type |-> "none", why |-> "none_input"]
Msg(s, t, w) == [to |-> s, type |-> t, why |-> w]

\* child_process.isalive(): asks the OS, no cached flag
isalive(p) == pstat[p] \in {"run", "hup"}

Spawned == {p \in Procs : owner[p] # None}

Init ==
    /\ conn = [s \in SIDs |-> "new"]
    /\ child_processes = [s \in SIDs |-> None]
    /\ owner = [p \in Procs |-> None]
    /\ pstat = [p \in Procs |-> "none"]
    /\ fd = [p \in Procs |-> "none"]
    /\ ptyOut = [p \in Procs |-> <<>>]
    /\ produced = [p \in Procs |-> <<>>]
    /\ decoder = [p \in Procs |-> <<>>]
    /\ delivered = [p \in Procs |-> <<>>]
    /\ ptyIn = [p \in Procs |-> <<>>]
    /\ sig = [p \in Procs |-> <<>>]
    /\ popped = [p \in Procs |-> "no"]
    /\ ppc = [p \in Procs |-> "none"]
    /\ pexit = [p \in Procs |-> "none"]
    /\ dcount = [p \in Procs |-> 0]
    /\ hpc = [h \in Handlers |-> "idle"]
    /\ hsid = [h \in Handlers |-> None]
    /\ hchild = [h \in Handlers |-> None]
    /\ nin = 0
    /\ last = NoMsg

\* ------------------------------------------------------------ connection

handle_connect(s) ==
    /\ conn[s] = "new"
    /\ conn' = [conn EXCEPT ![s] = "open"]
    /\ last' = NoMsg
    /\ UNCHANGED <<child_processes, procvars, pumpvars, hvars, nin>>

\* ---------------------------------------------------------- start_download

\* the next process object pexpect.spawn will create
NewProc == CHOOSE p \in Procs : owner[p] = None /\ \A q \in Procs : owner[q] = None => p <= q

\* handle_start_download without the check for a live process (app.py:100)
handle_start_download_NoDuplicateCheck(h, s, url) ==
    /\ hpc[h] = "idle"
    /\ conn[s] = "open"
    /\ IF url \in {"None", ""}
       THEN /\ last' = Msg(s, "error_message", "no_url")
            /\ UNCHANGED hvars
       ELSE /\ hpc' = [hpc EXCEPT ![h] = "spawn"]
            /\ hsid' = [hsid EXCEPT ![h] = s]
            /\ last' = NoMsg
            /\ UNCHANGED hchild
    /\ UNCHANGED <<conn, child_processes, procvars, pumpvars, nin>>

\* handle_start_download testing the url with "is None" instead of "not"
handle_start_download_EmptyUrlAccepted(h, s, url) ==
    /\ hpc[h] = "idle"
    /\ conn[s] = "open"
    /\ IF child_processes[s] # None /\ isalive(child_processes[s])
       THEN /\ last' = Msg(s, "error_message", "already_running")
            /\ UNCHANGED hvars
       ELSE IF url = "None"
       THEN /\ last' = Msg(s, "error_message", "no_url")
            /\ UNCHANGED hvars
       ELSE /\ hpc' = [hpc EXCEPT ![h] = "spawn"]
            /\ hsid' = [hsid EXCEPT ![h] = s]
            /\ last' = NoMsg
            /\ UNCHANGED hchild
    /\ UNCHANGED <<conn, child_processes, procvars, pumpvars, nin>>

\* app.py:97-110: the duplicate check and the url check. A request that passes
\* both goes on to spawn in a later step of the same handler thread.
handle_start_download(h, s, url) ==
    /\ hpc[h] = "idle"
    /\ conn[s] = "open"
    /\ IF child_processes[s] # None /\ isalive(child_processes[s])
       THEN /\ last' = Msg(s, "error_message", "already_running")
            /\ UNCHANGED hvars
       ELSE IF url \in {"None", ""}
       THEN /\ last' = Msg(s, "error_message", "no_url")
            /\ UNCHANGED hvars
       ELSE /\ hpc' = [hpc EXCEPT ![h] = "spawn"]
            /\ hsid' = [hsid EXCEPT ![h] = s]
            /\ last' = NoMsg
            /\ UNCHANGED hchild
    /\ UNCHANGED <<conn, child_processes, procvars, pumpvars, nin>>

\* handle_start_download whose except blocks leave the registry alone
handle_start_download_spawn_KeepsEntry(h, ok) ==
    /\ hpc[h] = "spawn"
    /\ LET s == hsid[h]
           p == NewProc
       IN IF ok
          THEN /\ owner' = [owner EXCEPT ![p] = s]
               /\ pstat' = [pstat EXCEPT ![p] = "run"]
               /\ fd' = [fd EXCEPT ![p] = "open"]
               /\ child_processes' = [child_processes EXCEPT ![s] = p]
               /\ ppc' = [ppc EXCEPT ![p] = "read"]
               /\ last' = Msg(s, "info_message", "started")
          ELSE /\ last' = Msg(s, "error_message", "spawn_failed")
               /\ UNCHANGED <<child_processes, owner, pstat, fd, ppc>>
    /\ hpc' = [hpc EXCEPT ![h] = "idle"]
    /\ hsid' = [hsid EXCEPT ![h] = None]
    /\ UNCHANGED <<conn, ptyOut, produced, decoder, delivered, ptyIn, sig, popped,
                   pexit, dcount, hchild, nin>>

\* app.py:112-158: pexpect.spawn, the registration, the start of the pump
\* thread; on a failed spawn the error message and the removal of whatever
\* entry the session has.
handle_start_download_spawn(h, ok) ==
    /\ hpc[h] = "spawn"
    /\ LET s == hsid[h]
           p == NewProc
       IN IF ok
          THEN /\ owner' = [owner EXCEPT ![p] = s]
               /\ pstat' = [pstat EXCEPT ![p] = "run"]
               /\ fd' = [fd EXCEPT ![p] = "open"]
               /\ child_processes' = [child_processes EXCEPT ![s] = p]
               /\ ppc' = [ppc EXCEPT ![p] = "read"]
               /\ last' = Msg(s, "info_message", "started")
          ELSE /\ child_processes' = [child_processes EXCEPT ![s] = None]
               /\ last' = Msg(s, "error_message", "spawn_failed")
               /\ UNCHANGED <<owner, pstat, fd, ppc>>
    /\ hpc' = [hpc EXCEPT ![h] = "idle"]
    /\ hsid' = [hsid EXCEPT ![h] = None]
    /\ UNCHANGED <<conn, ptyOut, produced, decoder, delivered, ptyIn, sig, popped,
                   pexit, dcount, hchild, nin>>

\* ------------------------------------------------------------- send_input

\* handle_send_input without the isalive() test (app.py:171)
handle_send_input_NoAliveCheck(s, inp, ok) ==
    /\ conn[s] = "open"
    /\ LET child_process == child_processes[s]
       IN IF inp = "None"
          THEN /\ last' = Ignored
               /\ UNCHANGED <<ptyIn, nin>>
          ELSE IF child_process # None
          THEN /\ ptyIn' = [ptyIn EXCEPT ![child_process] = Append(@, inp)]
               /\ nin' = nin + 1
               /\ last' = NoMsg
          ELSE /\ last' = Msg(s, "info_message", "input_not_sent")
               /\ UNCHANGED <<ptyIn, nin>>
    /\ UNCHANGED <<conn, child_processes, owner, pstat, fd, ptyOut, produced,
                   decoder, delivered, sig, popped, pumpvars, hvars>>

\* handle_send_input without the test for a None payload (app.py:165)
handle_send_input_NoNoneCheck(s, inp, ok) ==
    /\ conn[s] = "open"
    /\ LET child_process == child_processes[s]
       IN IF child_process # None /\ isalive(child_process)
          THEN IF ok \/ pstat[child_process] = "run"
               THEN /\ ptyIn' = [ptyIn EXCEPT ![child_process] = Append(@, inp)]
                    /\ nin' = nin + 1
                    /\ last' = NoMsg
               ELSE /\ last' = Msg(s, "error_message", "send_error")
                    /\ UNCHANGED <<ptyIn, nin>>
          ELSE /\ last' = Msg(s, "info_message", "input_not_sent")
               /\ UNCHANGED <<ptyIn, nin>>
    /\ UNCHANGED <<conn, child_processes, owner, pstat, fd, ptyOut, produced,
                   decoder, delivered, sig, popped, pumpvars, hvars>>

\* app.py:160-184. send() on a pty whose slave side is closed may raise.
handle_send_input(s, inp, ok) ==
    /\ conn[s] = "open"
    /\ LET child_process == child_processes[s]
       IN IF inp = "None"
          THEN /\ last' = Ignored
               /\ UNCHANGED <<ptyIn, nin>>
          ELSE IF child_process # None /\ isalive(child_process)
          THEN IF ok \/ pstat[child_process] = "run"
               THEN /\ ptyIn' = [ptyIn EXCEPT ![child_process] = Append(@, inp)]
                    /\ nin' = nin + 1
                    /\ last' = NoMsg
               ELSE /\ last' = Msg(s, "error_message", "send_error")
                    /\ UNCHANGED <<ptyIn, nin>>
          ELSE /\ last' = Msg(s, "info_message", "input_not_sent")
               /\ UNCHANGED <<ptyIn, nin>>
    /\ UNCHANGED <<conn, child_processes, owner, pstat, fd, ptyOut, produced,
                   decoder, delivered, sig, popped, pumpvars, hvars>>

\* -------------------------------------------------------------- disconnect

\* app.py:79-84: pop the entry; a live child is terminated in the next steps,
\* otherwise the handler returns (leave_room, app.py:95).
handle_disconnect(h, s) ==
    /\ hpc[h] = "idle"
    /\ conn[s] = "open"
    /\ conn' = [conn EXCEPT ![s] = "closed"]
    /\ child_processes' = [child_processes EXCEPT ![s] = None]
    /\ LET child_process == child_processes[s]
       IN IF child_process # None /\ isalive(child_process)
          THEN /\ hpc' = [hpc EXCEPT ![h] = "d_eof"]
               /\ hsid' = [hsid EXCEPT ![h] = s]
               /\ hchild' = [hchild EXCEPT ![h] = child_process]
          ELSE UNCHANGED hvars
    /\ popped' = IF child_processes[s] = None THEN popped
                 ELSE [popped EXCEPT ![child_processes[s]] =
                          IF isalive(child_processes[s]) THEN "alive" ELSE "dead"]
    /\ last' = NoMsg
    /\ UNCHANGED <<owner, pstat, fd, ptyOut, produced, decoder, delivered, ptyIn,
                   sig, pumpvars, nin>>

\* app.py:88-89: sendeof if alive, then sleep
handle_disconnect_sendeof(h) ==
    /\ hpc[h] = "d_eof"
    /\ sig' = IF isalive(hchild[h]) THEN [sig EXCEPT ![hchild[h]] = Append(@, "eof")]
              ELSE sig
    /\ hpc' = [hpc EXCEPT ![h] = "d_term"]
    /\ last' = NoMsg
    /\ UNCHANGED <<conn, child_processes, owner, pstat, fd, ptyOut, produced,
                   decoder, delivered, ptyIn, popped, pumpvars, hsid, hchild, nin>>

\* app.py:90-91: terminate(force=False) if alive, then sleep. The child may
\* survive the signals.
handle_disconnect_terminate(h, dies) ==
    /\ hpc[h] = "d_term"
    /\ IF isalive(hchild[h])
       THEN /\ sig' = [sig EXCEPT ![hchild[h]] = Append(@, "term")]
            /\ pstat' = IF dies THEN [pstat EXCEPT ![hchild[h]] = "dead"] ELSE pstat
       ELSE UNCHANGED <<sig, pstat>>
    /\ hpc' = [hpc EXCEPT ![h] = "d_kill"]
    /\ last' = NoMsg
    /\ UNCHANGED <<conn, child_processes, owner, fd, ptyOut, produced,
                   decoder, delivered, ptyIn, popped, pumpvars, hsid, hchild, nin>>

\* handle_disconnect_kill without the isalive() test (app.py:92)
handle_disconnect_kill_Unconditional(h) ==
    /\ hpc[h] = "d_kill"
    /\ sig' = [sig EXCEPT ![hchild[h]] = Append(@, "kill")]
    /\ pstat' = [pstat EXCEPT ![hchild[h]] = "dead"]
    /\ hpc' = [hpc EXCEPT ![h] = "idle"]
    /\ hsid' = [hsid EXCEPT ![h] = None]
    /\ hchild' = [hchild EXCEPT ![h] = None]
    /\ last' = NoMsg
    /\ UNCHANGED <<conn, child_processes, owner, fd, ptyOut, produced,
                   decoder, delivered, ptyIn, popped, pumpvars, nin>>

\* app.py:92-95: terminate(force=True) if alive, then leave_room and return
handle_disconnect_kill(h) ==
    /\ hpc[h] = "d_kill"
    /\ IF isalive(hchild[h])
       THEN /\ sig' = [sig EXCEPT ![hchild[h]] = Append(@, "kill")]
            /\ pstat' = [pstat EXCEPT ![hchild[h]] = "dead"]
       ELSE UNCHANGED <<sig, pstat>>
    /\ hpc' = [hpc EXCEPT ![h] = "idle"]
    /\ hsid' = [hsid EXCEPT ![h] = None]
    /\ hchild' = [hchild EXCEPT ![h] = None]
    /\ last' = NoMsg
    /\ UNCHANGED <<conn, child_processes, owner, fd, ptyOut, produced,
                   decoder, delivered, ptyIn, popped, pumpvars, nin>>

\* ------------------------------------------------------------------- pty

\* pexpect.spawn(encoding='utf-8') (app.py:134): read_nonblocking feeds the
\* bytes it read to an incremental UTF-8 decoder (errors='strict'). A lead
\* byte at the end of a read stays pending; a continuation byte without its
\* lead, or a lead without its continuation, raises UnicodeDecodeError.
RECURSIVE Decode(_, _, _)
Decode(bs, pend, acc) ==
    IF bs = <<>> THEN [ok |-> TRUE, chars |-> acc, pend |-> pend]
    ELSE LET b == Head(bs)
         IN IF pend = <<>>
            THEN IF b = "A" THEN Decode(Tail(bs), <<>>, Append(acc, "a"))
                 ELSE IF b = "L" THEN Decode(Tail(bs), <<"L">>, acc)
                 ELSE [ok |-> FALSE, chars |-> acc, pend |-> pend]
            ELSE IF b = "T" THEN Decode(Tail(bs), <<>>, Append(acc, "lt"))
                 ELSE [ok |-> FALSE, chars |-> acc, pend |-> pend]

\* the bytes of a decoded string
RECURSIVE Encode(_)
Encode(cs) ==
    IF cs = <<>> THEN <<>>
    ELSE (IF Head(cs) = "a" THEN <<"A">> ELSE <<"L", "T">>) \o Encode(Tail(cs))

Min(a, b) == IF a <= b THEN a ELSE b

\* a read that reports EOF as soon as the child is gone, buffered bytes or not
ReadOutcome_LivenessFirst(p) ==
    IF pstat[p] # "run" THEN "eof"
    ELSE IF ptyOut[p] # <<>> THEN "data"
    ELSE "timeout"

\* what one read_nonblocking(size, timeout) call observes (app.py:38):
\* bytes if any are buffered, EOF once the slave side is closed and the buffer
\* is drained, TIMEOUT while the child is running and silent.
ReadOutcome(p) ==
    IF ptyOut[p] # <<>> THEN "data"
    ELSE IF pstat[p] = "run" THEN "timeout"
    ELSE "eof"

\* --------------------------------------------------------------- the child

\* the child writes one byte to its terminal
ProcWrite(p, b) ==
    /\ pstat[p] = "run"
    /\ ptyOut' = [ptyOut EXCEPT ![p] = Append(@, b)]
    /\ produced' = [produced EXCEPT ![p] = Append(@, b)]
    /\ last' = NoMsg
    /\ UNCHANGED <<conn, child_processes, owner, pstat, fd, decoder, delivered,
                   ptyIn, sig, popped, pumpvars, hvars, nin>>

\* the child exits by itself or is killed from outside
ProcExit(p) ==
    /\ isalive(p)
    /\ pstat' = [pstat EXCEPT ![p] = "dead"]
    /\ last' = NoMsg
    /\ UNCHANGED <<conn, child_processes, owner, fd, ptyOut, produced, decoder,
                   delivered, ptyIn, sig, popped, pumpvars, hvars, nin>>

\* the child closes its side of the pty and keeps running
ProcHangup(p) ==
    /\ pstat[p] = "run"
    /\ pstat' = [pstat EXCEPT ![p] = "hup"]
    /\ last' = NoMsg
    /\ UNCHANGED <<conn, child_processes, owner, fd, ptyOut, produced, decoder,
                   delivered, ptyIn, sig, popped, pumpvars, hvars, nin>>

\* ---------------------------------------------------------------- the pump

\* app.py:34-58, one pass of the loop of read_gamdl_output up to the read's
\* outcome: data is decoded and emitted, EOF and errors leave the loop, a
\* timeout goes on to the liveness check.
pump_read(p) ==
    /\ ppc[p] = "read"
    /\ LET s == owner[p]
           n == Min(ReadSize, Len(ptyOut[p]))
           d == Decode(SubSeq(ptyOut[p], 1, n), decoder[p], <<>>)
       IN CASE ReadOutcome(p) = "data" ->
                 /\ ptyOut' = [ptyOut EXCEPT ![p] = SubSeq(@, n + 1, Len(@))]
                 /\ IF d.ok
                    THEN /\ decoder' = [decoder EXCEPT ![p] = d.pend]
                         /\ delivered' = [delivered EXCEPT ![p] = @ \o d.chars]
                         /\ last' = IF d.chars # <<>>
                                    THEN Msg(s, "gamdl_output", "data") ELSE NoMsg
                         /\ UNCHANGED <<ppc, pexit>>
                    ELSE /\ ppc' = [ppc EXCEPT ![p] = "fin_alive"]
                         /\ pexit' = [pexit EXCEPT ![p] = "error"]
                         /\ last' = Msg(s, "error_message", "read_error")
                         /\ UNCHANGED <<decoder, delivered>>
            [] ReadOutcome(p) = "timeout" ->
                 /\ ppc' = [ppc EXCEPT ![p] = "chk"]
                 /\ last' = NoMsg
                 /\ UNCHANGED <<ptyOut, decoder, delivered, pexit>>
            [] ReadOutcome(p) = "eof" ->
                 /\ ppc' = [ppc EXCEPT ![p] = "fin_alive"]
                 /\ pexit' = [pexit EXCEPT ![p] = "eof"]
                 /\ last' = Msg(s, "info_message", "eof")
                 /\ UNCHANGED <<ptyOut, decoder, delivered>>
    /\ UNCHANGED <<conn, child_processes, owner, pstat, fd, produced, ptyIn,
                   sig, popped, dcount, hvars, nin>>

\* pump_timeout that ends the loop at every timeout, without isalive()
\* (app.py:43)
pump_timeout_BreaksOnTimeout(p) ==
    /\ ppc[p] = "chk"
    /\ ppc' = [ppc EXCEPT ![p] = "fin_alive"]
    /\ pexit' = [pexit EXCEPT ![p] = "dead"]
    /\ last' = Msg(owner[p], "info_message", "exited")
    /\ UNCHANGED <<conn, child_processes, procvars, dcount, hvars, nin>>

\* app.py:41-47: after a timeout, leave the loop if the child is not alive
pump_timeout(p) ==
    /\ ppc[p] = "chk"
    /\ IF ~isalive(p)
       THEN /\ ppc' = [ppc EXCEPT ![p] = "fin_alive"]
            /\ pexit' = [pexit EXCEPT ![p] = "dead"]
            /\ last' = Msg(owner[p], "info_message", "exited")
       ELSE /\ ppc' = [ppc EXCEPT ![p] = "read"]
            /\ last' = NoMsg
            /\ UNCHANGED pexit
    /\ UNCHANGED <<conn, child_processes, procvars, dcount, hvars, nin>>

\* app.py:61: finally: if child_process.isalive()
pump_finally(p) ==
    /\ ppc[p] = "fin_alive"
    /\ ppc' = [ppc EXCEPT ![p] = IF isalive(p) THEN "fin_close" ELSE "fin_test"]
    /\ last' = NoMsg
    /\ UNCHANGED <<conn, child_processes, procvars, pexit, dcount, hvars, nin>>

\* app.py:63: child_process.close(): releases the descriptor and kills a
\* child that is still alive; it raises when the child cannot be terminated,
\* and the exception leaves the finally block and ends the thread.
pump_close(p, ok) ==
    /\ ppc[p] = "fin_close"
    /\ IF ok \/ ~isalive(p)
       THEN /\ fd' = [fd EXCEPT ![p] = "closed"]
            /\ pstat' = [pstat EXCEPT ![p] = "dead"]
            /\ ppc' = [ppc EXCEPT ![p] = "fin_test"]
       ELSE /\ ppc' = [ppc EXCEPT ![p] = "crashed"]
            /\ UNCHANGED <<fd, pstat>>
    /\ last' = NoMsg
    /\ UNCHANGED <<conn, child_processes, owner, ptyOut, produced, decoder,
                   delivered, ptyIn, sig, popped, pexit, dcount, hvars, nin>>

\* app.py:64: if sid in child_processes
pump_test(p) ==
    /\ ppc[p] = "fin_test"
    /\ ppc' = [ppc EXCEPT ![p] = IF child_processes[owner[p]] # None
                                 THEN "fin_del" ELSE "fin_emit"]
    /\ last' = NoMsg
    /\ UNCHANGED <<conn, child_processes, procvars, pexit, dcount, hvars, nin>>

\* pump_del that empties the whole registry instead of deleting one key
pump_del_ClearsRegistry(p) ==
    /\ ppc[p] = "fin_del"
    /\ IF child_processes[owner[p]] # None
       THEN /\ child_processes' = [s \in DOMAIN child_processes |-> None]
            /\ ppc' = [ppc EXCEPT ![p] = "fin_emit"]
       ELSE /\ ppc' = [ppc EXCEPT ![p] = "crashed"]
            /\ UNCHANGED child_processes
    /\ last' = NoMsg
    /\ UNCHANGED <<conn, procvars, pexit, dcount, hvars, nin>>

\* app.py:66: del child_processes[sid]; KeyError if the entry is gone
pump_del(p) ==
    /\ ppc[p] = "fin_del"
    /\ IF child_processes[owner[p]] # None
       THEN /\ child_processes' = [child_processes EXCEPT ![owner[p]] = None]
            /\ ppc' = [ppc EXCEPT ![p] = "fin_emit"]
       ELSE /\ ppc' = [ppc EXCEPT ![p] = "crashed"]
            /\ UNCHANGED child_processes
    /\ last' = NoMsg
    /\ UNCHANGED <<conn, procvars, pexit, dcount, hvars, nin>>

\* app.py:68: emit download_complete; the thread ends
pump_complete(p) ==
    /\ ppc[p] = "fin_emit"
    /\ dcount' = [dcount EXCEPT ![p] = @ + 1]
    /\ ppc' = [ppc EXCEPT ![p] = "done"]
    /\ last' = Msg(owner[p], "download_complete", "done")
    /\ UNCHANGED <<conn, child_processes, procvars, pexit, hvars, nin>>

\* ---------------------------------------------------------- specification

\* number of bytes written by all children so far
RECURSIVE SumLen(_, _)
SumLen(f, S) ==
    IF S = {} THEN 0
    ELSE LET x == CHOOSE y \in S : TRUE IN Len(f[x]) + SumLen(f, S \ {x})
TotalOut == SumLen(produced, Procs)

\* room for one more process object within MaxProcs
CanSpawn == Cardinality(Spawned) + Cardinality({h \in Handlers : hpc[h] = "spawn"}) < MaxProcs

Next ==
    \/ \E s \in SIDs : handle_connect(s)
    \/ \E h \in Handlers, s \in SIDs, url \in Urls :
          CanSpawn /\ handle_start_download(h, s, url)
    \/ \E h \in Handlers, ok \in BOOLEAN : handle_start_download_spawn(h, ok)
    \/ \E s \in SIDs, inp \in Inputs, ok \in BOOLEAN :
          nin < MaxIn /\ handle_send_input(s, inp, ok)
    \/ \E h \in Handlers, s \in SIDs : handle_disconnect(h, s)
    \/ \E h \in Handlers : handle_disconnect_sendeof(h)
    \/ \E h \in Handlers, dies \in BOOLEAN : handle_disconnect_terminate(h, dies)
    \/ \E h \in Handlers : handle_disconnect_kill(h)
    \/ \E p \in Procs, b \in Bytes : TotalOut < MaxOut /\ ProcWrite(p, b)
    \/ \E p \in Procs : ProcExit(p)
    \/ \E p \in Procs : ProcHangup(p)
    \/ \E p \in Procs : pump_read(p)
    \/ \E p \in Procs : pump_timeout(p)
    \/ \E p \in Procs : pump_finally(p)
    \/ \E p \in Procs, ok \in BOOLEAN : pump_close(p, ok)
    \/ \E p \in Procs : pump_test(p)
    \/ \E p \in Procs : pump_del(p)
    \/ \E p \in Procs : pump_complete(p)

Spec == Init /\ [][Next]_vars

\* A single download with a longer output: one start_download that spawns,
\* the child, its pump and the disconnect.
NextOut ==
    \/ \E s \in SIDs : handle_connect(s)
    \/ \E h \in Handlers, s \in SIDs, url \in Urls :
          /\ Spawned = {}
          /\ \A g \in Handlers : hpc[g] # "spawn"
          /\ handle_start_download(h, s, url)
    \/ \E h \in Handlers : handle_start_download_spawn(h, TRUE)
    \/ \E h \in Handlers, s \in SIDs : handle_disconnect(h, s)
    \/ \E h \in Handlers : handle_disconnect_sendeof(h)
    \/ \E h \in Handlers, dies \in BOOLEAN : handle_disconnect_terminate(h, dies)
    \/ \E h \in Handlers : handle_disconnect_kill(h)
    \/ \E p \in Procs, b \in Bytes : Len(produced[p]) < MaxOutLen /\ ProcWrite(p, b)
    \/ \E p \in Procs : ProcExit(p)
    \/ \E p \in Procs : ProcHangup(p)
    \/ \E p \in Procs : pump_read(p)
    \/ \E p \in Procs : pump_timeout(p)
    \/ \E p \in Procs : pump_finally(p)
    \/ \E p \in Procs, ok \in BOOLEAN : pump_close(p, ok)
    \/ \E p \in Procs : pump_test(p)
    \/ \E p \in Procs : pump_del(p)
    \/ \E p \in Procs : pump_complete(p)

SpecOut == Init /\ [][NextOut]_vars

\* Two clients: request.sid takes one more value. Each session starts one
\* download; a handler thread is as good as another, so an event takes the
\* first idle one; the process spawned first is the one that writes, hangs up
\* or exits by itself, the other one ends when its session disconnects.
TwoSIDs == 1..(NumSessions + 1)

InitTwo ==
    /\ conn = [s \in TwoSIDs |-> "new"]
    /\ child_processes = [s \in TwoSIDs |-> None]
    /\ owner = [p \in Procs |-> None]
    /\ pstat = [p \in Procs |-> "none"]
    /\ fd = [p \in Procs |-> "none"]
    /\ ptyOut = [p \in Procs |-> <<>>]
    /\ produced = [p \in Procs |-> <<>>]
    /\ decoder = [p \in Procs |-> <<>>]
    /\ delivered = [p \in Procs |-> <<>>]
    /\ ptyIn = [p \in Procs |-> <<>>]
    /\ sig = [p \in Procs |-> <<>>]
    /\ popped = [p \in Procs |-> "no"]
    /\ ppc = [p \in Procs |-> "none"]
    /\ pexit = [p \in Procs |-> "none"]
    /\ dcount = [p \in Procs |-> 0]
    /\ hpc = [h \in Handlers |-> "idle"]
    /\ hsid = [h \in Handlers |-> None]
    /\ hchild = [h \in Handlers |-> None]
    /\ nin = 0
    /\ last = NoMsg

NextTwo ==
    \/ \E s \in TwoSIDs : handle_connect(s)
    \/ \E h \in Handlers, s \in TwoSIDs, url \in Urls :
          /\ CanSpawn
          /\ \A g \in Handlers : g < h => hpc[g] # "idle"
          /\ \A g \in Handlers : hpc[g] = "spawn" => hsid[g] # s
          /\ \A p \in Procs : owner[p] = s => isalive(p)
          /\ handle_start_download(h, s, url)
    \/ \E h \in Handlers, ok \in BOOLEAN : handle_start_download_spawn(h, ok)
    \/ \E s \in TwoSIDs, inp \in Inputs, ok \in BOOLEAN :
          nin < MaxIn /\ handle_send_input(s, inp, ok)
    \/ \E h \in Handlers, s \in TwoSIDs :
          /\ \A g \in Handlers : g < h => hpc[g] # "idle"
          /\ handle_disconnect(h, s)
    \/ \E h \in Handlers : handle_disconnect_sendeof(h)
    \/ \E h \in Handlers, dies \in BOOLEAN : handle_disconnect_terminate(h, dies)
    \/ \E h \in Handlers : handle_disconnect_kill(h)
    \/ \E p \in Procs, b \in Bytes :
          /\ \A q \in Procs : p <= q
          /\ TotalOut < MaxOut
          /\ ProcWrite(p, b)
    \/ \E p \in Procs : (\A q \in Procs : p <= q) /\ ProcExit(p)
    \/ \E p \in Procs : (\A q \in Procs : p <= q) /\ ProcHangup(p)
    \/ \E p \in Procs : pump_read(p)
    \/ \E p \in Procs : pump_timeout(p)
    \/ \E p \in Procs : pump_finally(p)
    \/ \E p \in Procs, ok \in BOOLEAN : pump_close(p, ok)
    \/ \E p \in Procs : pump_test(p)
    \/ \E p \in Procs : pump_del(p)
    \/ \E p \in Procs : pump_complete(p)

SpecTwo == InitTwo /\ [][NextTwo]_vars

\* ------------------------------------------------------------------ claims

Owned(s) == {p \in Procs : owner[p] = s}
Live(s)  == {p \in Owned(s) : isalive(p)}

\* the read_gamdl_output thread of p has ended: it returned, or an exception
\* left its finally block
PumpOver(p) == ppc[p] \in {"done", "crashed"}

\* the cleanup of p is complete as far as the registry goes: its pump is past
\* the removal of the entry, or handle_disconnect has popped it
Cleaned(p) == ppc[p] \in {"fin_emit", "done", "crashed"} \/ popped[p] # "no"

\* a handle_disconnect thread of session s is still at work
Disconnecting(s) == \E h \in Handlers : hsid[h] = s /\ hpc[h] \in {"d_eof", "d_term", "d_kill"}

\* C1: in every reachable state every session has at most one live process
\* among those spawned for it.
C1_AtMostOneLive == \A s \in SIDs : Cardinality(Live(s)) <= 1

\* C2: in every reachable state child_processes has an entry for a session
\* exactly if a process spawned for it has not completed cleanup, and the
\* entry is that process.
C2_EntryIffNotCleaned ==
    \A s \in SIDs :
        /\ child_processes[s] # None <=> \E p \in Owned(s) : ~Cleaned(p)
        /\ \A p \in Owned(s) : ~Cleaned(p) => child_processes[s] = p

\* C3: once a process is not alive and its pump thread has ended, the pump
\* has finalized with exactly one download_complete for that process.
C3_DeadThenOneComplete ==
    \A p \in Spawned :
        (~isalive(p) /\ PumpOver(p)) => (ppc[p] = "done" /\ dcount[p] = 1)

\* C4: once handle_disconnect has returned for a session whose registered
\* process it found alive, no process of that session is alive.
C4_DisconnectLeavesNoneAlive ==
    \A s \in SIDs :
        (/\ conn[s] = "closed"
         /\ ~Disconnecting(s)
         /\ \E p \in Owned(s) : popped[p] = "alive")
        => Live(s) = {}

\* C10: once the pump of a process has finalized and no disconnect handler
\* of its session is at work, the process is not alive and its pty
\* descriptor has been released by close().
C10_DescriptorReleased ==
    \A p \in Spawned :
        (ppc[p] = "done" /\ ~Disconnecting(owner[p]))
        => (~isalive(p) /\ fd[p] = "closed")

\* C5: a start_download handled while the session's registered process is
\* alive emits error_message to the session, spawns nothing, starts no pump
\* and leaves the registry, the processes and the pumps as they are.
C5_DuplicateStartRejected ==
    [][\A h \in Handlers, s \in SIDs, url \in Urls :
          (/\ child_processes[s] # None
           /\ isalive(child_processes[s])
           /\ handle_start_download(h, s, url))
          => (/\ last' = Msg(s, "error_message", "already_running")
              /\ UNCHANGED <<child_processes, procvars, pumpvars, hvars>>)]_vars

C5_Witness ==
    /\ last.why = "already_running"
    /\ \E s \in SIDs : child_processes[s] # None /\ isalive(child_processes[s])

\* C7: a send_input with a payload, handled for a session with no entry or
\* with an entry that is not alive, emits the 'input not sent' info_message,
\* writes to no process and leaves the registry unchanged.
C7_InputNotSent ==
    [][\A s \in SIDs, inp \in Inputs \ {"None"}, ok \in BOOLEAN :
          (/\ child_processes[s] = None \/ ~isalive(child_processes[s])
           /\ handle_send_input(s, inp, ok))
          => (/\ last' = Msg(s, "info_message", "input_not_sent")
              /\ UNCHANGED <<child_processes, procvars, pumpvars>>)]_vars

C7_Witness ==
    /\ last.why = "input_not_sent"
    /\ \E s \in SIDs : child_processes[s] # None /\ ~isalive(child_processes[s])

\* C8: a failed spawn emits error_message to the session, leaves no entry
\* for it, creates no process and starts no pump; and a start_download with a
\* target for a session without an entry is never rejected.
C8_SpawnFailure ==
    [][/\ \A h \in Handlers :
             (hpc[h] = "spawn" /\ handle_start_download_spawn(h, FALSE))
             => (/\ last' = Msg(hsid[h], "error_message", "spawn_failed")
                 /\ child_processes'[hsid[h]] = None
                 /\ UNCHANGED <<owner, pstat, fd, ppc>>)
       /\ \A h \in Handlers, s \in SIDs :
             (child_processes[s] = None /\ handle_start_download(h, s, "url"))
             => (hpc'[h] = "spawn" /\ last' = NoMsg)]_vars

C8_Witness ==
    /\ last.why = "spawn_failed"
    /\ child_processes[last.to] = None
    /\ \E p \in Owned(last.to) : ppc[p] \notin {"fin_emit", "done", "crashed"}

\* C9: a start_download with a missing or empty url, handled for a session
\* without a live registered process, emits error_message to the session,
\* spawns nothing, starts no pump and leaves the registry unchanged.
C9_MissingUrlRejected ==
    [][\A h \in Handlers, s \in SIDs, url \in {"None", ""} :
          (/\ child_processes[s] = None \/ ~isalive(child_processes[s])
           /\ handle_start_download(h, s, url))
          => (/\ last' = Msg(s, "error_message", "no_url")
              /\ UNCHANGED <<child_processes, procvars, pumpvars, hvars>>)]_vars

C9_Witness ==
    /\ last.why = "no_url"
    /\ \E s \in SIDs : child_processes[s] # None /\ ~isalive(child_processes[s])

IsPrefix(a, b) == Len(a) <= Len(b) /\ SubSeq(b, 1, Len(a)) = a

\* the pump of p left its loop on EOF and has finalized
FinalizedAfterEOF(p) == ppc[p] = "done" /\ pexit[p] = "eof"

C12_FinalizationSurvivesPop ==
    [][\A p \in Procs :
          (ppc[p] \in {"fin_test", "fin_del", "fin_emit"} /\ popped'[p] # "no")
          => (/\ ppc'[p] # "crashed"
              /\ ppc'[p] = "done" => dcount'[p] = 1)]_vars

\* C13: the check for a live process and the insertion into the registry act
\* as one step: no handler registers a new process while the session has a
\* live registered process.
C13_CheckAndInsertAtomic ==
    [][\A h \in Handlers :
          (hpc[h] = "spawn" /\ handle_start_download_spawn(h, TRUE))
          => ~(/\ child_processes[hsid[h]] # None
               /\ isalive(child_processes[hsid[h]]))]_vars

\* C14: whatever close() does, the finalization goes on to the removal of
\* the registry entry and to download_complete.
C14_CloseFailureTolerated ==
    [][\A p \in Procs :
          ppc[p] = "fin_close" => ppc'[p] \in {"fin_close", "fin_test"}]_vars

\* the termination requests, in the order of their escalation
Rank(x) == IF x = "eof" THEN 1 ELSE IF x = "term" THEN 2 ELSE 3

Escalating(q) == \A i, j \in 1..Len(q) : i < j => Rank(q[i]) < Rank(q[j])

\* C15: handle_disconnect issues a termination request only to the process
\* it has popped from the registry, only if that process is alive right
\* before the request, and only in the order sendeof, terminate, kill; a
\* process found dead, or a session without entry, gets none.
C15_GraduatedTermination ==
    [][\A p \in Procs :
          sig'[p] # sig[p]
          => (/\ isalive(p)
              /\ popped[p] = "alive"
              /\ child_processes[owner[p]] # p
              /\ \E x \in {"eof", "term", "kill"} : sig'[p] = Append(sig[p], x)
              /\ Escalating(sig'[p]))]_vars

C15_Witness == \E p \in Spawned : sig[p] = <<"eof", "term", "kill">>

\* the finalization of read_gamdl_output
InFinally(p) == ppc[p] \in {"fin_alive", "fin_close", "fin_test", "fin_del", "fin_emit",
                            "done", "crashed"}

\* the read of this step ends the loop: EOF, or bytes that do not decode
ReadEndsLoop(p) ==
    \/ ReadOutcome(p) = "eof"
    \/ /\ ReadOutcome(p) = "data"
       /\ ~Decode(SubSeq(ptyOut[p], 1, Min(ReadSize, Len(ptyOut[p]))), decoder[p], <<>>).ok

\* C16: the pump leaves its loop only on EOF, on a read error, or on a
\* timeout at which the child is not alive; after data, or a timeout with a
\* live child, it reads again. So it touches the registry and emits
\* download_complete only after one of the three.
C16_LoopExits ==
    [][\A p \in Procs :
          /\ (ppc[p] = "read" /\ InFinally(p)') => ReadEndsLoop(p)
          /\ (ppc[p] = "read" /\ pump_read(p) /\ ~ReadEndsLoop(p))
                => ppc'[p] \in {"read", "chk"}
          /\ (ppc[p] = "chk" /\ InFinally(p)') => ~isalive(p)
          /\ (ppc[p] = "chk" /\ pump_timeout(p) /\ isalive(p)) => ppc'[p] = "read"
          /\ (pump_read(p) \/ pump_timeout(p))
                => (dcount' = dcount /\ child_processes' = child_processes)
       ]_vars

C16_Witness ==
    \E p \in Spawned : /\ pexit[p] = "dead" /\ ppc[p] = "fin_alive"
                       /\ \E q \in Spawned : pexit[q] = "eof" /\ InFinally(q)

\* a process spawned for s that is running and whose pump is in its loop
Serving(s) == {p \in Owned(s) : pstat[p] = "run" /\ ppc[p] \in {"read", "chk"}}

\* C17: when a session that has not disconnected has a running process
\* spawned for it whose pump has not finalized, a send_input with a payload
\* other than None appends that payload once to the input of such a process,
\* changes no other process's input and emits no 'input not sent'.
C17_InputReachesLiveProcess ==
    [][\A s \in SIDs, inp \in Inputs \ {"None"}, ok \in BOOLEAN :
          (handle_send_input(s, inp, ok) /\ conn[s] = "open" /\ Serving(s) # {})
          => (/\ \E p \in Serving(s) : ptyIn' = [ptyIn EXCEPT ![p] = Append(@, inp)]
              /\ last'.why # "input_not_sent")]_vars

\* C18: a send_input whose payload is None writes to no process, emits no
\* message and changes neither the registry nor anything else.
C18_NoneInputIgnored ==
    [][\A s \in SIDs, ok \in BOOLEAN :
          handle_send_input(s, "None", ok)
          => (/\ last'.to = None /\ last'.type = "none"
              /\ UNCHANGED <<conn, child_processes, procvars, pumpvars, hvars, nin>>)]_vars

C18_Witness ==
    /\ last = Ignored
    /\ \E s \in SIDs : /\ conn[s] = "open"
                       /\ child_processes[s] # None
                       /\ isalive(child_processes[s])

\* C19: the pump of process p removes the registry entry of its session only
\* if the entry refers to p.
C19_RemovesOwnEntryOnly ==
    [][\A p \in Procs :
          (pump_del(p) /\ child_processes[owner[p]] # None)
          => child_processes[owner[p]] = p]_vars

\* C20: once handle_disconnect has popped the entry of a session, no
\* start_download handler of that session registers a new process: a process
\* spawned for the session is in the registry when the disconnect looks.
C20_NoSpawnAfterDisconnect ==
    [][\A h \in Handlers :
          (hpc[h] = "spawn" /\ handle_start_download_spawn(h, TRUE))
          => conn[hsid[h]] # "closed"]_vars

\* what a step made for session s must leave alone: the entry, the
\* processes and the client of every other session
OthersUntouched(s) ==
    \A t \in (DOMAIN conn) \ {s} :
        /\ child_processes'[t] = child_processes[t]
        /\ \A p \in Owned(t) : /\ pstat'[p] = pstat[p]
                               /\ ptyIn'[p] = ptyIn[p]
                               /\ fd'[p] = fd[p]
                               /\ sig'[p] = sig[p]
                               /\ owner'[p] = t
        /\ last'.to # t

\* no process is in the entries of two sessions, and an entry holds a
\* process spawned for its session
EntriesDisjoint ==
    \A s \in DOMAIN conn :
        child_processes[s] # None
        => (/\ owner[child_processes[s]] = s
            /\ \A t \in (DOMAIN conn) \ {s} : child_processes[t] # child_processes[s])

\* a step of a handler running for session s, or of the pump of a process
\* spawned for s
StepOf(s) ==
    \/ \E h \in Handlers, url \in Urls : handle_start_download(h, s, url)
    \/ \E h \in Handlers, ok \in BOOLEAN :
          hpc[h] = "spawn" /\ hsid[h] = s /\ handle_start_download_spawn(h, ok)
    \/ \E inp \in Inputs, ok \in BOOLEAN : handle_send_input(s, inp, ok)
    \/ \E h \in Handlers : handle_disconnect(h, s)
    \/ \E h \in Handlers, dies \in BOOLEAN :
          /\ hpc[h] \in {"d_eof", "d_term", "d_kill"} /\ hsid[h] = s
          /\ \/ handle_disconnect_sendeof(h)
             \/ handle_disconnect_terminate(h, dies)
             \/ handle_disconnect_kill(h)
    \/ \E p \in Owned(s), ok \in BOOLEAN :
          \/ pump_read(p) \/ pump_timeout(p) \/ pump_finally(p)
          \/ pump_close(p, ok) \/ pump_test(p) \/ pump_del(p)
          \/ pump_complete(p)

\* C11: every handler step and every pump step made for session s leaves the
\* registry entry, the processes (liveness, pty input, descriptor) and the
\* message stream of every other session unchanged; a process is in at most
\* one session's entry, and every message goes to the session of the handler
\* or pump that emits it.
C11_SessionsIsolated ==
    /\ []EntriesDisjoint
    /\ [][\A s \in DOMAIN conn : OthersUntouched(s) \/ ~StepOf(s)]_vars

C11_Witness ==
    \E s \in DOMAIN conn, t \in DOMAIN conn :
        /\ s # t
        /\ last.to = s /\ last.type = "error_message"
        /\ Owned(s) # {}
        /\ child_processes[t] # None
        /\ pstat[child_processes[t]] = "run"
        /\ ppc[child_processes[t]] \in {"read", "chk"}

====
